---------------------------- MODULE Spec2Model ----------------------------
(***************************************************************************)
(* Model of scripts/bench-mt940-WolpH.py:                                  *)
(*                                                                         *)
(*   3  import timeit                                                      *)
(*   4  setup = """                                                        *)
(*   5  from pathlib import Path                                           *)
(*   6  import mt940                                                       *)
(*   7  input_str = Path("tests/data/.../MT940_DK_Example.sta").read_text()*)
(*   8  """                                                                *)
(*   9  print(timeit.timeit("mt940.parse(input_str)", setup, number=10))   *)
(*                                                                         *)
(* timeit.timeit(stmt, setup, number=n) runs the function that the timeit  *)
(* template builds from the two strings:                                   *)
(*                                                                         *)
(*     def inner(_it, _timer):                                             *)
(*         {setup}                                                         *)
(*         _t0 = _timer()                                                  *)
(*         for _i in _it:          # _it = itertools.repeat(None, n)       *)
(*             {stmt}                                                      *)
(*         _t1 = _timer()                                                  *)
(*         return _t1 - _t0                                                *)
(*                                                                         *)
(* The script has no try/except, so an exception raised by the import, by  *)
(* read_text or by mt940.parse leaves the interpreter with exit status 1   *)
(* and nothing on standard output.                                         *)
(*                                                                         *)
(* The environment of the script is the part it does not control: whether  *)
(* the fixture file exists and what it holds, whether the mt940 package    *)
(* can be imported, at which invocation (if any) mt940.parse raises, and   *)
(* how many ticks of the monotonic clock each operation takes.  The script *)
(* is run twice in succession (a second interpreter process after the      *)
(* first has exited) against the same environment.                         *)
(*                                                                         *)
(* Optional values (an unbound local, a missing file, an exit status not   *)
(* yet set) are sequences of length 0 or 1.                                *)
(***************************************************************************)
EXTENDS Integers, Sequences, FiniteSets

\* number=10, the literal of line 9
Number == 10

\* largest cost, in clock ticks, of one operation
MaxCost == 2

\* largest iteration count explored when the iteration count is varied
MaxNumber == 20

\* the script is run twice in succession: the first run and the second
RunIds == {1, 2}

\* possible contents of the fixture file
Texts == {"sta_a", "sta_b"}

\* possible return values of mt940.parse
Results == {"transactions"}

VARIABLES
    \* ---- environment
    fileText,    \* <<>>: the fixture path does not exist; <<s>>: it holds s
    installed,   \* whether `import mt940` succeeds
    raiseAt,     \* mt940.parse raises on its raiseAt-th invocation; 0: never
    costSet,     \* the costs, in ticks, one invocation of mt940.parse may take
    ioCost,      \* the cost, in ticks, of the import and of the file read
    numbers,     \* numbers[r]: the `number` argument of run r
    clock,       \* the monotonic clock read by _timer()
    \* ---- the interpreter process of the current run
    run,         \* which run this is
    pc,          \* the step of inner() that is next, or "exited"
    input_str,   \* the local of the setup: <<>> while unbound
    i,           \* iterations of the for loop started so far
    t0,          \* _t0: <<>> while unbound
    t1,          \* _t1: <<>> while unbound
    stdout,      \* the values printed
    status,      \* the exit status: <<>> while running
    \* ---- observations of the current run
    reads,       \* read_text calls made
    calls,       \* the argument of each invocation of mt940.parse, in order
    trace,       \* the events of the run, in order
    raised,      \* "none", or the step whose exception ended the run
    \* ---- observations of the previous run
    prev         \* <<>>, or the summary of the run before this one

vars == <<fileText, installed, raiseAt, costSet, ioCost, numbers, clock,
          run, pc, input_str, i, t0, t1, stdout, status,
          reads, calls, trace, raised, prev>>

env == <<fileText, installed, raiseAt, costSet, ioCost, numbers>>

number == numbers[run]

-----------------------------------------------------------------------------
(* Pure parts of the script and of timeit *)

\* (a faulty variant: the file is read after _t0, inside the timed part)
TemplateReadTimed == <<"import", "t0", "read", "loop", "t1", "print">>

\* (a faulty variant: the file is read before mt940 is imported)
TemplateReadFirst == <<"read", "import", "t0", "loop", "t1", "print">>

\* The body of inner(): the setup's statements in their textual order (import
\* mt940, then read_text), then _t0, the loop, _t1, and the print of the
\* returned value.
Template == <<"import", "read", "t0", "loop", "t1", "print">>

\* the step after step p of the template
NextPc(p) ==
    LET k == CHOOSE j \in 1..Len(Template) : Template[j] = p
    IN  IF k < Len(Template) THEN Template[k + 1] ELSE "exited"

\* (a faulty variant: one iteration too many)
LoopDoneOffByOne(k, n) == k > n

\* for _i in itertools.repeat(None, n): the loop ends after n iterations
LoopDone(k, n) == k >= n

\* (a faulty variant: the operands swapped)
ElapsedSwapped(a, b) == a - b

\* return _t1 - _t0
Elapsed(a, b) == b - a

\* (a faulty variant: input_str = mt940.parse(input_str))
RebindResult(s, r) == r

\* The stmt is the expression statement mt940.parse(input_str): the value r it
\* returns is discarded and input_str stays bound to s.
DiscardResult(s, r) == s

\* (a faulty variant: the exception is swallowed before the exit)
ExitStatusZero(unhandled) == 0

\* the interpreter's exit status: 1 after an unhandled exception, else 0
ExitStatus(unhandled) == IF unhandled THEN 1 ELSE 0

\* The state of a newly started interpreter: nothing bound, nothing printed.
FreshProcess ==
    [pc |-> Template[1], input_str |-> <<>>, i |-> 0, t0 |-> <<>>, t1 |-> <<>>,
     stdout |-> <<>>, status |-> <<>>, reads |-> 0, calls |-> <<>>,
     trace |-> <<>>, raised |-> "none"]

\* what an observer of a finished run sees
Summary ==
    [number |-> number, status |-> status, reads |-> reads,
     ncalls |-> Len(calls), stdout |-> stdout, raised |-> raised]

-----------------------------------------------------------------------------
(* Initial states *)

InitProcess ==
    /\ run = 1
    /\ pc = FreshProcess.pc
    /\ input_str = FreshProcess.input_str
    /\ i = FreshProcess.i
    /\ t0 = FreshProcess.t0
    /\ t1 = FreshProcess.t1
    /\ stdout = FreshProcess.stdout
    /\ status = FreshProcess.status
    /\ reads = FreshProcess.reads
    /\ calls = FreshProcess.calls
    /\ trace = FreshProcess.trace
    /\ raised = FreshProcess.raised
    /\ prev = <<>>
    /\ clock = 0

\* The script as written: number=10 in every run.
Init ==
    /\ fileText \in {<<>>} \cup {<<s>> : s \in Texts}
    /\ installed \in BOOLEAN
    /\ raiseAt \in 0..Number
    /\ costSet \in {{c} : c \in 0..MaxCost} \cup {0..MaxCost}
    /\ ioCost \in 0..MaxCost
    /\ numbers = [r \in RunIds |-> Number]
    /\ InitProcess

\* The iteration count varied from run to run, each invocation of mt940.parse
\* costing the same number of ticks.
InitScale ==
    /\ fileText \in {<<>>, <<"sta_a">>}
    /\ installed \in BOOLEAN
    /\ raiseAt \in 0..1
    /\ costSet \in {{c} : c \in 0..MaxCost}
    /\ ioCost \in {0, MaxCost}
    /\ numbers \in [RunIds -> 1..MaxNumber]
    /\ InitProcess

-----------------------------------------------------------------------------
(* Steps *)

\* An exception nobody catches: traceback on stderr, nothing on stdout.
Unhandled(step) ==
    /\ pc' = "exited"
    /\ status' = <<ExitStatus(TRUE)>>
    /\ raised' = step

\* line 6, import mt940, the package being importable
SetupImport ==
    /\ pc = "import"
    /\ installed
    /\ pc' = NextPc("import")
    /\ clock' = clock + ioCost
    /\ UNCHANGED <<env, run, input_str, i, t0, t1, stdout, status,
                   reads, calls, trace, raised, prev>>

\* line 6, import mt940 raising ModuleNotFoundError
SetupImportFails ==
    /\ pc = "import"
    /\ ~installed
    /\ Unhandled("import")
    /\ UNCHANGED <<env, clock, run, input_str, i, t0, t1, stdout,
                   reads, calls, trace, prev>>

\* line 7, input_str = Path(...).read_text(), the file being there
SetupReadText ==
    /\ pc = "read"
    /\ fileText # <<>>
    /\ reads' = reads + 1
    /\ trace' = Append(trace, "read")
    /\ input_str' = fileText
    /\ clock' = clock + ioCost
    /\ pc' = NextPc("read")
    /\ UNCHANGED <<env, run, i, t0, t1, stdout, status, calls, raised, prev>>

\* (a faulty variant: the FileNotFoundError is caught and the run goes
\* on with an empty text)
SetupReadFailsCaught ==
    /\ pc = "read"
    /\ fileText = <<>>
    /\ reads' = reads + 1
    /\ trace' = Append(trace, "read")
    /\ input_str' = <<"">>
    /\ pc' = NextPc("read")
    /\ UNCHANGED <<env, clock, run, i, t0, t1, stdout, status, calls, raised, prev>>

\* line 7, read_text raising FileNotFoundError
SetupReadFails ==
    /\ pc = "read"
    /\ fileText = <<>>
    /\ reads' = reads + 1
    /\ trace' = Append(trace, "read")
    /\ Unhandled("read")
    /\ UNCHANGED <<env, clock, run, input_str, i, t0, t1, stdout, calls, prev>>

\* _t0 = _timer()
TimerStart ==
    /\ pc = "t0"
    /\ t0' = <<clock>>
    /\ trace' = Append(trace, "t0")
    /\ pc' = NextPc("t0")
    /\ UNCHANGED <<env, clock, run, input_str, i, t1, stdout, status,
                   reads, calls, raised, prev>>

\* one iteration of the loop: mt940.parse(input_str) returning
StmtReturns ==
    /\ pc = "loop"
    /\ ~LoopDone(i, number)
    /\ i + 1 # raiseAt
    /\ i' = i + 1
    /\ calls' = Append(calls, input_str[1])
    /\ trace' = Append(trace, "call")
    /\ \E c \in costSet : clock' = clock + c
    /\ \E r \in Results : input_str' = <<DiscardResult(input_str[1], r)>>
    /\ UNCHANGED <<env, run, pc, t0, t1, stdout, status, reads, raised, prev>>

\* (a faulty variant: the stmt wrapped in try/except, the loop going on)
StmtRaisesCaught ==
    /\ pc = "loop"
    /\ ~LoopDone(i, number)
    /\ i + 1 = raiseAt
    /\ i' = i + 1
    /\ calls' = Append(calls, input_str[1])
    /\ trace' = Append(trace, "call")
    /\ \E c \in costSet : clock' = clock + c
    /\ UNCHANGED <<env, run, pc, input_str, t0, t1, stdout, status, reads, raised, prev>>

\* one iteration of the loop: mt940.parse(input_str) raising
StmtRaises ==
    /\ pc = "loop"
    /\ ~LoopDone(i, number)
    /\ i + 1 = raiseAt
    /\ i' = i + 1
    /\ calls' = Append(calls, input_str[1])
    /\ trace' = Append(trace, "call")
    /\ \E c \in costSet : clock' = clock + c
    /\ Unhandled("stmt")
    /\ UNCHANGED <<env, run, input_str, t0, t1, stdout, reads, prev>>

\* the iterator is exhausted: the loop is left
LoopExit ==
    /\ pc = "loop"
    /\ LoopDone(i, number)
    /\ pc' = NextPc("loop")
    /\ UNCHANGED <<env, clock, run, input_str, i, t0, t1, stdout, status,
                   reads, calls, trace, raised, prev>>

\* _t1 = _timer()
TimerStop ==
    /\ pc = "t1"
    /\ t1' = <<clock>>
    /\ trace' = Append(trace, "t1")
    /\ pc' = NextPc("t1")
    /\ UNCHANGED <<env, clock, run, input_str, i, t0, stdout, status,
                   reads, calls, raised, prev>>

\* print(<the value inner() returned>), and the script ends
PrintTiming ==
    /\ pc = "print"
    /\ stdout' = Append(stdout, Elapsed(t0[1], t1[1]))
    /\ trace' = Append(trace, "print")
    /\ pc' = NextPc("print")
    /\ status' = <<ExitStatus(FALSE)>>
    /\ UNCHANGED <<env, clock, run, input_str, i, t0, t1,
                   reads, calls, raised, prev>>

\* (a faulty variant: the second run made in the same interpreter, with
\* the exhausted iterator and the bound names of the first)
NextRunSameProcess ==
    /\ pc = "exited"
    /\ run + 1 \in RunIds
    /\ run' = run + 1
    /\ prev' = <<Summary>>
    /\ pc' = Template[1]
    /\ stdout' = <<>>
    /\ status' = <<>>
    /\ trace' = <<>>
    /\ UNCHANGED <<env, clock, input_str, i, t0, t1, reads, calls, raised>>

\* The script is started again after the previous process has exited.
NextRun ==
    /\ pc = "exited"
    /\ run + 1 \in RunIds
    /\ run' = run + 1
    /\ prev' = <<Summary>>
    /\ pc' = FreshProcess.pc
    /\ input_str' = FreshProcess.input_str
    /\ i' = FreshProcess.i
    /\ t0' = FreshProcess.t0
    /\ t1' = FreshProcess.t1
    /\ stdout' = FreshProcess.stdout
    /\ status' = FreshProcess.status
    /\ reads' = FreshProcess.reads
    /\ calls' = FreshProcess.calls
    /\ trace' = FreshProcess.trace
    /\ raised' = FreshProcess.raised
    /\ UNCHANGED <<env, clock>>

Next ==
    \/ SetupImport
    \/ SetupImportFails
    \/ SetupReadText
    \/ SetupReadFails
    \/ TimerStart
    \/ StmtReturns
    \/ StmtRaises
    \/ LoopExit
    \/ TimerStop
    \/ PrintTiming
    \/ NextRun

Spec == Init /\ [][Next]_vars

SpecScale == InitScale /\ [][Next]_vars

\* The interpreter runs the script without pausing: a step that can be taken
\* is taken.
FairSpec == Init /\ [][Next]_vars /\ WF_vars(Next)


-----------------------------------------------------------------------------
(* Properties *)

Exited == pc = "exited"

\* the fixture can be loaded and mt940.parse never raises
ValidEnv == installed /\ fileText # <<>> /\ raiseAt = 0

NonZeroExit == Exited /\ Len(status) = 1 /\ status[1] # 0

\* the events of a complete run, in order
FullTrace ==
    <<"read", "t0">> \o [j \in 1..number |-> "call"] \o <<"t1", "print">>

IsPrefix(s, t) == Len(s) <= Len(t) /\ \A j \in 1..Len(s) : s[j] = t[j]

\* C1: mt940.parse is never invoked more than `number` (10) times, every
\* invocation receives the text of the fixture file, and a run in which the
\* load succeeds and no invocation raises has made exactly 10 invocations when
\* it ends.
C1_ExactlyNumberCalls ==
    /\ Len(calls) <= Number
    /\ \A j \in 1..Len(calls) : fileText # <<>> /\ calls[j] = fileText[1]
    /\ (Exited /\ ValidEnv) => Len(calls) = Number

C1_Witness == Exited /\ ValidEnv /\ Len(calls) = Number /\ raised = "none"

\* C2: when the fixture path does not exist (and the import before the read
\* succeeds), the run never gets past the read: no invocation of mt940.parse,
\* no timer reading, nothing printed, and it ends with a non-zero status.
C2_MissingFixture ==
    (installed /\ fileText = <<>>) =>
        /\ Len(calls) = 0
        /\ stdout = <<>>
        /\ t0 = <<>>
        /\ pc \in {"import", "read", "exited"}
        /\ Exited => NonZeroExit

C2_Witness ==
    /\ installed /\ fileText = <<>>
    /\ NonZeroExit /\ raised = "read" /\ reads = 1 /\ Len(calls) = 0

\* C3: when mt940.parse raises on its k-th invocation (1 <= k <= number), no
\* more than k invocations are ever made, and the run ends with a non-zero
\* status, exactly k invocations and nothing printed.
C3_RaiseAtKth ==
    (installed /\ fileText # <<>> /\ raiseAt \in 1..number) =>
        /\ Len(calls) <= raiseAt
        /\ stdout = <<>>
        /\ t1 = <<>>
        /\ Exited => (NonZeroExit /\ Len(calls) = raiseAt /\ i = raiseAt)

C3_Witness ==
    /\ installed /\ fileText # <<>> /\ raiseAt = 3
    /\ NonZeroExit /\ raised = "stmt" /\ Len(calls) = 3 /\ stdout = <<>>

\* C4: with a fixture that exists and that mt940.parse accepts, a run that has
\* started ends having printed exactly one value, and that value is >= 0.
C4_CompletesAndPrints ==
    (pc = "import" /\ ValidEnv)
        ~> (Exited /\ Len(stdout) = 1 /\ stdout[1] >= 0 /\ status = <<0>>)

C4_Witness ==
    /\ Exited /\ ValidEnv /\ number >= 1
    /\ Len(stdout) = 1 /\ stdout[1] > 0 /\ Len(calls) = number

\* C5: the fixture file is read at most once in a run, input_str once bound is
\* the text of the file, and all invocations of mt940.parse receive the same
\* text.
C5_ReadOnceUnchanged ==
    /\ reads <= 1
    /\ input_str # <<>> => (reads = 1 /\ input_str = fileText)
    /\ \A j, k \in 1..Len(calls) : calls[j] = calls[k]

C5_Witness ==
    /\ reads = 1 /\ Len(calls) >= 2 /\ input_str = fileText
    /\ calls[1] = calls[Len(calls)]

\* C6: the events of a run are a prefix of: read, timer start, the `number`
\* invocations, timer stop, print.  The read is over before the timer is
\* started, every invocation is made with the timer started and not stopped,
\* and the print is made after the timer is stopped; the time the read takes is
\* not in the printed duration (invocations that take no time print 0).
C6_LinearOrder ==
    /\ IsPrefix(trace, FullTrace)
    /\ t0 # <<>> => (reads = 1 /\ input_str # <<>>)
    /\ Len(calls) > 0 => t0 # <<>>
    /\ t1 # <<>> => (t0 # <<>> /\ Len(calls) = number /\ t0[1] <= t1[1])
    /\ stdout # <<>> => t1 # <<>>
    /\ pc = "loop" => (t0 # <<>> /\ t1 = <<>>)
    /\ (Len(stdout) = 1 /\ costSet = {0}) => stdout[1] = 0

C6_Witness == Exited /\ trace = FullTrace /\ ioCost > 0 /\ stdout[1] > 0

\* C7: a run that has ended has status 0 exactly when the load and all
\* `number` invocations succeeded, which is exactly when the duration was
\* printed; a run ended by the file read or by mt940.parse has a non-zero
\* status.
C7_ExitStatus ==
    Exited =>
        /\ Len(status) = 1
        /\ status = <<0>> <=> ValidEnv
        /\ status = <<0>> <=> (reads = 1 /\ Len(calls) = number /\ raised = "none")
        /\ status = <<0>> <=> Len(stdout) = 1
        /\ raised \in {"import", "read", "stmt"} => status[1] # 0

C7_Witness == Exited /\ raised = "stmt" /\ status = <<1>> /\ stdout = <<>>

\* both runs have completed and printed
BothPrinted ==
    /\ run = 2 /\ Exited /\ Len(stdout) = 1
    /\ Len(prev) = 1 /\ Len(prev[1].stdout) = 1

\* C8: with a constant cost of c ticks per invocation, a complete run reports
\* c * number; so of two runs the one with the smaller iteration count reports
\* no more than the other, and a run with twice the iterations reports twice
\* the duration (20 against 10 in particular).
C8_DurationScales ==
    /\ (Exited /\ Len(stdout) = 1) => \A c \in costSet : stdout[1] = c * number
    /\ BothPrinted =>
        LET n1 == prev[1].number
            d1 == prev[1].stdout[1]
            n2 == number
            d2 == stdout[1]
        IN  /\ n1 <= n2 => d1 <= d2
            /\ n2 <= n1 => d2 <= d1
            /\ n2 = 2 * n1 => d2 = 2 * d1
            /\ n1 = 2 * n2 => d1 = 2 * d2

C8_Witness ==
    /\ BothPrinted
    /\ prev[1].number = Number /\ number = 2 * Number
    /\ ioCost > 0
    /\ prev[1].stdout[1] > 0 /\ stdout[1] = 2 * prev[1].stdout[1]

C10_ImportFailsFirst ==
    ~installed =>
        /\ reads = 0
        /\ Len(calls) = 0
        /\ t0 = <<>>
        /\ stdout = <<>>
        /\ trace = <<>>
        /\ Exited => (NonZeroExit /\ raised = "import")

C10_Witness ==
    /\ ~installed /\ fileText # <<>>
    /\ NonZeroExit /\ raised = "import" /\ reads = 0

=============================================================================
